---------------------------- MODULE Spec2Model ----------------------------
(***************************************************************************)
(* Model of the retro-ide native backend (src-tauri/src/lib.rs): the       *)
(* project-state commands (get_current_project, open_project_dialog,       *)
(* load_last_project, close_project) running as concurrent tasks over one  *)
(* Mutex<ProjectState> and one settings store, and the filesystem commands *)
(* (read_directory, read_file_contents, write_file_contents,               *)
(* read_file_binary).                                                      *)
(*                                                                         *)
(* Strings are sequences of byte values (46 '.', 47 '/', 65..90 'A'..'Z',  *)
(* 97..122 'a'..'z'); Option<T> is a sequence of length 0 (None) or 1      *)
(* (Some); a Result is a record [ok, val] or [ok, err].                    *)
(***************************************************************************)
EXTENDS Integers, Sequences, FiniteSets, TLC

-----------------------------------------------------------------------------
(* Bounds *)

\* number of concurrently running command tasks of the worker pool
MaxTasks == 2

-----------------------------------------------------------------------------
(* Option and Result *)

None == <<>>
Some(v) == <<v>>
IsSome(o) == Len(o) = 1
Unwrap(o) == o[1]

Ok(v) == [ok |-> TRUE, val |-> v, err |-> ""]
Err(e) == [ok |-> FALSE, val |-> <<>>, err |-> e]

-----------------------------------------------------------------------------
(* Strings used by the model *)

S_root == <<47>>                                  \* "/"
S_x == <<47, 120>>                                \* "/x"
S_x_Proj == <<47, 120, 47, 80, 114, 111, 106>>    \* "/x/Proj"
S_Proj == <<80, 114, 111, 106>>                   \* "Proj"

N_a == <<97>>                                                    \* "a"
N_b == <<98>>                                                    \* "b"
S_p == <<47, 112>>                                               \* "/p"
N_zeta == <<122, 101, 116, 97>>                                  \* "zeta"
N_Alpha_txt == <<65, 108, 112, 104, 97, 46, 116, 120, 116>>      \* "Alpha.txt"
N_beta_txt == <<98, 101, 116, 97, 46, 116, 120, 116>>            \* "beta.txt"
N_Beta_txt == <<66, 101, 116, 97, 46, 116, 120, 116>>            \* "Beta.txt"
N_git == <<46, 103, 105, 116>>                                   \* ".git"
N_a_txt == <<97, 46, 116, 120, 116>>                             \* "a.txt"
N_B_txt == <<66, 46, 116, 120, 116>>                             \* "B.txt"
N_icon_PNG == <<105, 99, 111, 110, 46, 80, 78, 71>>              \* "icon.PNG"
N_data_bin == <<100, 97, 116, 97, 46, 98, 105, 110>>             \* "data.bin"
N_a_jpg == <<97, 46, 106, 112, 103>>                             \* "a.jpg"
N_a_JpEg == <<97, 46, 74, 112, 69, 103>>                         \* "a.JpEg"
N_a_gif == <<97, 46, 103, 105, 102>>                             \* "a.gif"
N_a_webp == <<97, 46, 119, 101, 98, 112>>                        \* "a.webp"
N_a_bmp == <<97, 46, 98, 109, 112>>                              \* "a.bmp"
N_a_ico == <<97, 46, 105, 99, 111>>                              \* "a.ico"
N_a_svg == <<97, 46, 115, 118, 103>>                             \* "a.svg"
N_README == <<82, 69, 65, 68, 77, 69>>                           \* "README"
N_dot_png == <<46, 112, 110, 103>>                               \* ".png"
N_a_png_txt == <<97, 46, 112, 110, 103, 46, 116, 120, 116>>      \* "a.png.txt"
N_png == <<112, 110, 103>>                                       \* "png"
E_png == <<112, 110, 103>>                                       \* "png"
E_jpg == <<106, 112, 103>>                                       \* "jpg"
E_jpeg == <<106, 112, 101, 103>>                                 \* "jpeg"
E_gif == <<103, 105, 102>>                                       \* "gif"
E_webp == <<119, 101, 98, 112>>                                  \* "webp"
E_bmp == <<98, 109, 112>>                                        \* "bmp"
E_ico == <<105, 99, 111>>                                        \* "ico"
E_svg == <<115, 118, 103>>                                       \* "svg"
T_x == <<120>>                                                   \* "x"
T_yz == <<121, 122>>                                             \* "yz"

\* the folders the folder picker can offer
Folders == {S_root, S_x_Proj}

-----------------------------------------------------------------------------
(* std::path::Path on strings *)

RECURSIVE SplitFrom(_, _, _)
\* the segments of s between '/' separators, from index i on
SplitFrom(s, i, cur) ==
    IF i > Len(s) THEN <<cur>>
    ELSE IF s[i] = 47 THEN <<cur>> \o SplitFrom(s, i + 1, <<>>)
    ELSE SplitFrom(s, i + 1, Append(cur, s[i]))

\* Path::components of an absolute path, without the root component: empty
\* segments and "." segments are dropped
components(s) ==
    SelectSeq(SplitFrom(s, 1, <<>>), LAMBDA c : c # <<>> /\ c # <<46>>)

\* Path::file_name: the last component, None for the root or a path ending in ".."
file_name(s) ==
    LET cs == components(s) IN
    IF cs = <<>> THEN None
    ELSE IF cs[Len(cs)] = <<46, 46>> THEN None
    ELSE Some(cs[Len(cs)])

-----------------------------------------------------------------------------
(* ProjectState *)

\* ProjectState::default()
ProjectState_default == [path |-> None, name |-> None]

\* a mutant: the display name without the fallback to the full path
ProjectOf_nofallback(path_str) ==
    [path |-> Some(path_str), name |-> file_name(path_str)]

\* the ProjectState built by open_project_dialog and load_last_project
ProjectOf(path_str) ==
    LET n == file_name(path_str) IN
    [path |-> Some(path_str),
     name |-> Some(IF IsSome(n) THEN Unwrap(n) ELSE path_str)]

-----------------------------------------------------------------------------
(* State *)

VARIABLES
    project,    \* AppState.project: the ProjectState inside the Mutex
    mutex,      \* the Mutex: None when free, Some(t) when task t holds the guard
    store,      \* the settings store of this process: "unavailable" (app.store
                \* is Err), "flaky" (a save may fail) or "reliable"
    cache,      \* the store's value under LAST_PROJECT_KEY: Option of a JSON value
    disk,       \* the value under LAST_PROJECT_KEY in settings.json on disk
    fs,         \* the filesystem: existing paths (component sequences) -> node
    pc,         \* pc[t]: where task t is in its command
    local,      \* local[t]: the running command's locals
    ret,        \* the command that returned last, with its result
    hist,       \* the two commands that returned before it, latest first
    last,       \* the filesystem command that ran last, with its result
    written     \* path -> the contents of the last successful write to it

vars == <<project, mutex, store, cache, disk, fs, pc, local, ret, hist, last,
          written>>

Tasks == 1 .. MaxTasks

\* app.store(STORE_FILE) is Ok
storeOk == store # "unavailable"

\* a JSON string value / some JSON value that is not a string
JsonStr(s) == [kind |-> "string", s |-> s]
JsonOther == [kind |-> "other", s |-> <<>>]
\* serde_json::Value::as_str
as_str(v) == IF v.kind = "string" THEN Some(v.s) ELSE None

Dir == [kind |-> "dir", data |-> <<>>]
File(data) == [kind |-> "file", data |-> data]

\* Path::exists
exists(s) == components(s) \in DOMAIN fs
\* Path::is_dir / Path::is_file
is_dir(s) == exists(s) /\ fs[components(s)].kind = "dir"
is_file(s) == exists(s) /\ fs[components(s)].kind = "file"

NoLast == [op |-> "none", path |-> <<>>, res |-> Ok(<<>>)]
NoLocal == [path |-> None, persist |-> "none"]
NoRet == [cmd |-> "none", val |-> None, persist |-> "none"]

\* task t's command returns val
Return(t, cmd, val) ==
    /\ ret' = [cmd |-> cmd, val |-> val, persist |-> local[t].persist]
    /\ pc' = [pc EXCEPT ![t] = "idle"]
    /\ local' = [local EXCEPT ![t] = NoLocal]

Goto(t, l) == pc' = [pc EXCEPT ![t] = l]

-----------------------------------------------------------------------------
(* get_current_project *)

get_current_project(t) ==
    /\ pc[t] = "idle"
    /\ Goto(t, "gcp_lock")
    /\ UNCHANGED <<project, mutex, store, cache, disk, fs, local, ret>>

\* state.project.lock().unwrap()
gcp_lock(t) ==
    /\ pc[t] = "gcp_lock"
    /\ mutex = None
    /\ mutex' = Some(t)
    /\ Goto(t, "gcp_read")
    /\ UNCHANGED <<project, store, cache, disk, fs, local, ret>>

\* .clone(); the guard is dropped at the end of the statement
gcp_read(t) ==
    /\ pc[t] = "gcp_read"
    /\ mutex' = None
    /\ Return(t, "get_current_project", Some(project))
    /\ UNCHANGED <<project, store, cache, disk, fs>>

-----------------------------------------------------------------------------
(* open_project_dialog *)

open_project_dialog(t) ==
    /\ pc[t] = "idle"
    /\ Goto(t, "opd_dialog")
    /\ UNCHANGED <<project, mutex, store, cache, disk, fs, local, ret>>

\* blocking_pick_folder(): the user picks an existing folder, or cancels
opd_dialog(t) ==
    /\ pc[t] = "opd_dialog"
    /\ \/ \E p \in Folders :
            /\ exists(p)
            /\ local' = [local EXCEPT ![t].path = Some(p)]
            /\ Goto(t, "opd_store")
            /\ UNCHANGED ret
       \/ Return(t, "open_project_dialog", None)
    /\ UNCHANGED <<project, mutex, store, cache, disk, fs>>

\* if let Ok(store) = app.store(STORE_FILE) { store.set(LAST_PROJECT_KEY, path_str)
opd_store(t) ==
    /\ pc[t] = "opd_store"
    /\ IF storeOk
       THEN /\ cache' = Some(JsonStr(Unwrap(local[t].path)))
            /\ Goto(t, "opd_save")
            /\ UNCHANGED local
       ELSE /\ local' = [local EXCEPT ![t].persist = "unavailable"]
            /\ Goto(t, "opd_lock")
            /\ UNCHANGED cache
    /\ UNCHANGED <<project, mutex, store, disk, fs, ret>>

\* a mutant: store.save()? makes a failed save fail the command
opd_save_propagate(t) ==
    /\ pc[t] = "opd_save"
    /\ \/ /\ disk' = cache
          /\ local' = [local EXCEPT ![t].persist = "saved"]
          /\ Goto(t, "opd_lock")
          /\ UNCHANGED ret
       \/ /\ store = "flaky"
          /\ UNCHANGED disk
          /\ ret' = [cmd |-> "open_project_dialog", val |-> None,
                     persist |-> "save_failed"]
          /\ pc' = [pc EXCEPT ![t] = "idle"]
          /\ local' = [local EXCEPT ![t] = NoLocal]
    /\ UNCHANGED <<project, mutex, store, cache, fs>>

\* let _ = store.save(): writes the whole store to disk, or fails
opd_save(t) ==
    /\ pc[t] = "opd_save"
    /\ \/ /\ disk' = cache
          /\ local' = [local EXCEPT ![t].persist = "saved"]
       \/ /\ store = "flaky"
          /\ UNCHANGED disk
          /\ local' = [local EXCEPT ![t].persist = "save_failed"]
    /\ Goto(t, "opd_lock")
    /\ UNCHANGED <<project, mutex, store, cache, fs, ret>>

\* state.project.lock().unwrap()
opd_lock(t) ==
    /\ pc[t] = "opd_lock"
    /\ mutex = None
    /\ mutex' = Some(t)
    /\ Goto(t, "opd_write")
    /\ UNCHANGED <<project, store, cache, disk, fs, local, ret>>

\* *guard = project.clone(); Ok(Some(project))
opd_write(t) ==
    /\ pc[t] = "opd_write"
    /\ project' = ProjectOf(Unwrap(local[t].path))
    /\ mutex' = None
    /\ Return(t, "open_project_dialog", Some(ProjectOf(Unwrap(local[t].path))))
    /\ UNCHANGED <<store, cache, disk, fs>>

-----------------------------------------------------------------------------
(* load_last_project *)

load_last_project(t) ==
    /\ pc[t] = "idle"
    /\ Goto(t, "llp_get")
    /\ UNCHANGED <<project, mutex, store, cache, disk, fs, local, ret>>

\* a mutant: the guard is taken at the top of the command and held across
\* the store read
llp_get_locked(t) ==
    /\ pc[t] = "llp_get"
    /\ mutex = None
    /\ mutex' = Some(t)
    /\ IF storeOk /\ IsSome(cache) /\ IsSome(as_str(Unwrap(cache)))
       THEN /\ local' = [local EXCEPT ![t].path = as_str(Unwrap(cache))]
            /\ Goto(t, "llp_exists")
            /\ UNCHANGED ret
       ELSE Return(t, "load_last_project", None)
    /\ UNCHANGED <<project, store, cache, disk, fs>>

\* app.store(STORE_FILE), store.get(LAST_PROJECT_KEY), value.as_str()
llp_get(t) ==
    /\ pc[t] = "llp_get"
    /\ IF storeOk /\ IsSome(cache) /\ IsSome(as_str(Unwrap(cache)))
       THEN /\ local' = [local EXCEPT ![t].path = as_str(Unwrap(cache))]
            /\ Goto(t, "llp_exists")
            /\ UNCHANGED ret
       ELSE Return(t, "load_last_project", None)
    /\ UNCHANGED <<project, mutex, store, cache, disk, fs>>

\* a mutant: a missing folder resets the in-memory state
llp_exists_reset(t) ==
    /\ pc[t] = "llp_exists"
    /\ IF exists(Unwrap(local[t].path))
       THEN /\ Goto(t, "llp_lock")
            /\ UNCHANGED <<project, local, ret>>
       ELSE /\ project' = ProjectState_default
            /\ Return(t, "load_last_project", None)
    /\ UNCHANGED <<mutex, store, cache, disk, fs>>

\* if std::path::Path::new(path_str).exists() { ... } ... Ok(None)
llp_exists(t) ==
    /\ pc[t] = "llp_exists"
    /\ IF exists(Unwrap(local[t].path))
       THEN /\ Goto(t, "llp_lock")
            /\ UNCHANGED <<local, ret>>
       ELSE Return(t, "load_last_project", None)
    /\ UNCHANGED <<project, mutex, store, cache, disk, fs>>

\* state.project.lock().unwrap()
llp_lock(t) ==
    /\ pc[t] = "llp_lock"
    /\ mutex = None
    /\ mutex' = Some(t)
    /\ Goto(t, "llp_write")
    /\ UNCHANGED <<project, store, cache, disk, fs, local, ret>>

\* *guard = project.clone(); return Ok(Some(project))
llp_write(t) ==
    /\ pc[t] = "llp_write"
    /\ project' = ProjectOf(Unwrap(local[t].path))
    /\ mutex' = None
    /\ Return(t, "load_last_project", Some(ProjectOf(Unwrap(local[t].path))))
    /\ UNCHANGED <<store, cache, disk, fs>>

-----------------------------------------------------------------------------
(* close_project *)

close_project(t) ==
    /\ pc[t] = "idle"
    /\ Goto(t, "cp_store")
    /\ UNCHANGED <<project, mutex, store, cache, disk, fs, local, ret>>

\* a mutant: close_project leaves the persisted path in the store
cp_store_nodelete(t) ==
    /\ pc[t] = "cp_store"
    /\ IF storeOk
       THEN /\ Goto(t, "cp_save")
            /\ UNCHANGED local
       ELSE /\ local' = [local EXCEPT ![t].persist = "unavailable"]
            /\ Goto(t, "cp_lock")
    /\ UNCHANGED <<project, mutex, store, cache, disk, fs, ret>>

\* if let Ok(store) = app.store(STORE_FILE) { let _ = store.delete(LAST_PROJECT_KEY)
cp_store(t) ==
    /\ pc[t] = "cp_store"
    /\ IF storeOk
       THEN /\ cache' = None
            /\ Goto(t, "cp_save")
            /\ UNCHANGED local
       ELSE /\ local' = [local EXCEPT ![t].persist = "unavailable"]
            /\ Goto(t, "cp_lock")
            /\ UNCHANGED cache
    /\ UNCHANGED <<project, mutex, store, disk, fs, ret>>

\* let _ = store.save(): writes the whole store to disk, or fails
cp_save(t) ==
    /\ pc[t] = "cp_save"
    /\ \/ /\ disk' = cache
          /\ local' = [local EXCEPT ![t].persist = "saved"]
       \/ /\ store = "flaky"
          /\ UNCHANGED disk
          /\ local' = [local EXCEPT ![t].persist = "save_failed"]
    /\ Goto(t, "cp_lock")
    /\ UNCHANGED <<project, mutex, store, cache, fs, ret>>

\* state.project.lock().unwrap()
cp_lock(t) ==
    /\ pc[t] = "cp_lock"
    /\ mutex = None
    /\ mutex' = Some(t)
    /\ Goto(t, "cp_write")
    /\ UNCHANGED <<project, store, cache, disk, fs, local, ret>>

\* *guard = ProjectState::default(); Ok(())
cp_write(t) ==
    /\ pc[t] = "cp_write"
    /\ project' = ProjectState_default
    /\ mutex' = None
    /\ Return(t, "close_project", None)
    /\ UNCHANGED <<store, cache, disk, fs>>

-----------------------------------------------------------------------------
(* The environment: project folders deleted and created outside the program *)

RemoveFolder(p) ==
    /\ components(p) # <<>>
    /\ exists(p)
    /\ fs' = [c \in DOMAIN fs \ {components(p)} |-> fs[c]]
    /\ UNCHANGED <<project, mutex, store, cache, disk, pc, local, ret>>

CreateFolder(p) ==
    /\ ~exists(p)
    /\ fs' = [c \in DOMAIN fs \cup {components(p)} |->
                IF c = components(p) THEN Dir ELSE fs[c]]
    /\ UNCHANGED <<project, mutex, store, cache, disk, pc, local, ret>>

-----------------------------------------------------------------------------
(* The project-state specification: the commands as concurrent tasks *)

\* the filesystem holding every folder of Folders
ProjectFs ==
    [c \in {components(p) : p \in Folders} \cup {components(S_x)} |-> Dir]

\* run(): AppState { project: Mutex::new(ProjectState::default()) }; the store
\* holds what settings.json held when the process started
Init ==
    /\ project = ProjectState_default
    /\ mutex = None
    /\ store \in {"unavailable", "flaky", "reliable"}
    /\ disk \in {None, Some(JsonOther)} \cup {Some(JsonStr(p)) : p \in Folders}
    /\ cache = disk
    /\ fs = ProjectFs
    /\ pc = [t \in Tasks |-> "idle"]
    /\ local = [t \in Tasks |-> NoLocal]
    /\ ret = NoRet
    /\ hist = <<NoRet, "none">>
    /\ last = NoLast
    /\ written = <<>>

\* one step of the command task t is running
Step(t) ==
    \/ gcp_lock(t) \/ gcp_read(t)
    \/ opd_dialog(t) \/ opd_store(t) \/ opd_save(t) \/ opd_lock(t) \/ opd_write(t)
    \/ llp_get(t) \/ llp_exists(t) \/ llp_lock(t) \/ llp_write(t)
    \/ cp_store(t) \/ cp_save(t) \/ cp_lock(t) \/ cp_write(t)

\* the frontend invokes a command on an idle task
Invoke(t) ==
    \/ get_current_project(t)
    \/ open_project_dialog(t)
    \/ load_last_project(t)
    \/ close_project(t)

Env ==
    \E p \in Folders : RemoveFolder(p) \/ CreateFolder(p)

Next ==
    \/ \E t \in Tasks : Invoke(t) \/ Step(t)
    \/ Env

Spec == Init /\ [][Next /\ UNCHANGED <<hist, last, written>>]_vars

\* no command is in progress
AllIdle == \A t \in Tasks : pc[t] = "idle"

\* the commands run one after another: a command is invoked only when none runs
NextSeq ==
    \/ \E t \in Tasks : (AllIdle /\ Invoke(t)) \/ Step(t)
    \/ Env

\* a command returns in this step
Returns == \E t \in Tasks : pc[t] # "idle" /\ pc'[t] = "idle"

\* hist records the return before the last one, and the command before that
Track == hist' = IF Returns THEN <<ret, hist[1].cmd>> ELSE hist

SpecSeq == Init /\ [][NextSeq /\ Track /\ UNCHANGED <<last, written>>]_vars

-----------------------------------------------------------------------------
(* Bounds of the filesystem specifications *)

\* depth of the paths the tree specification passes to the commands
MaxDepth == 3
\* number of files and directories the tree specification creates
MaxNodes == 3
\* number of entries under the listed directory
MaxEntries == 5
\* number of files the MIME specification creates
MaxFiles == 1

-----------------------------------------------------------------------------
(* More of std::path::Path *)

RECURSIVE Concat(_)
Concat(cs) == IF cs = <<>> THEN <<>> ELSE <<47>> \o Head(cs) \o Concat(Tail(cs))

\* the absolute path with the components cs
Render(cs) == IF cs = <<>> THEN <<47>> ELSE Concat(cs)

\* Path::parent: None for the root, else the path without its last component
parent(s) ==
    LET cs == components(s) IN
    IF cs = <<>> THEN None ELSE Some(Render(SubSeq(cs, 1, Len(cs) - 1)))

\* Path::join of a file name onto a directory path
join(base, name) ==
    IF base[Len(base)] = 47 THEN base \o name ELSE base \o <<47>> \o name

\* Path::extension: what follows the last '.' of the file name; None without a
\* file name, without a '.', or when the only '.' starts the name
extension(s) ==
    LET n == file_name(s) IN
    IF n = None THEN None
    ELSE LET f == Unwrap(n)
             dots == {i \in 1 .. Len(f) : f[i] = 46}
         IN  IF dots = {} THEN None
             ELSE LET i == CHOOSE x \in dots : \A y \in dots : y <= x
                  IN  IF i = 1 THEN None ELSE Some(SubSeq(f, i + 1, Len(f)))

\* str::to_lowercase on ASCII
to_lowercase(s) ==
    IF s = <<>> THEN <<>>
    ELSE [i \in 1 .. Len(s) |-> IF s[i] \in 65 .. 90 THEN s[i] + 32 ELSE s[i]]

RECURSIVE str_cmp(_, _)
\* Ord for String: lexicographic on the bytes
str_cmp(a, b) ==
    IF a = <<>> /\ b = <<>> THEN "Equal"
    ELSE IF a = <<>> THEN "Less"
    ELSE IF b = <<>> THEN "Greater"
    ELSE IF a[1] < b[1] THEN "Less"
    ELSE IF a[1] > b[1] THEN "Greater"
    ELSE str_cmp(Tail(a), Tail(b))

-----------------------------------------------------------------------------
(* std::fs on the model's filesystem *)

projvars == <<project, mutex, store, cache, disk, pc, local, ret, hist>>

\* the components of cs's proper and improper prefixes
Prefixes(cs) == {SubSeq(cs, 1, i) : i \in 0 .. Len(cs)}

\* the nodes directly under the directory with components cs
ChildrenOf(cs) ==
    {d \in DOMAIN fs : Len(d) = Len(cs) + 1 /\ SubSeq(d, 1, Len(cs)) = cs}

\* fs::create_dir_all(s) for a path that does not exist: fails under a regular
\* file, else creates every missing directory down to s
create_dir_all(f, s) ==
    LET cs == components(s) IN
    IF \E c \in Prefixes(cs) : c \in DOMAIN f /\ f[c].kind = "file"
    THEN [ok |-> FALSE, fs |-> f, err |-> "Not a directory (os error 20)"]
    ELSE [ok |-> TRUE,
          fs |-> [c \in DOMAIN f \cup Prefixes(cs) |->
                     IF c \in DOMAIN f THEN f[c] ELSE Dir],
          err |-> ""]

\* fs::write(s, data): creates or truncates the file and writes data
fs_write(f, s, data) ==
    LET cs == components(s)
        up == SubSeq(cs, 1, Len(cs) - 1)
    IN  IF cs = <<>> \/ (cs \in DOMAIN f /\ f[cs].kind = "dir")
        THEN [ok |-> FALSE, fs |-> f, err |-> "Is a directory (os error 21)"]
        ELSE IF up \notin DOMAIN f
        THEN [ok |-> FALSE, fs |-> f,
              err |-> "No such file or directory (os error 2)"]
        ELSE IF f[up].kind # "dir"
        THEN [ok |-> FALSE, fs |-> f, err |-> "Not a directory (os error 20)"]
        ELSE [ok |-> TRUE,
              fs |-> [c \in DOMAIN f \cup {cs} |->
                         IF c = cs THEN File(data) ELSE f[c]],
              err |-> ""]

\* the bytes are valid UTF-8: the model's text is ASCII, and its only other
\* bytes (137, 255) never start a valid sequence
valid_utf8(data) == \A i \in 1 .. Len(data) : data[i] < 128

-----------------------------------------------------------------------------
(* read_directory *)

\* name.starts_with('.')
starts_with_dot(name) == Len(name) > 0 /\ name[1] = 46

\* the FileEntry pushed for the directory entry called name
FileEntry(path, name) ==
    [name |-> name,
     path |-> join(path, name),
     is_dir |-> is_dir(join(path, name)),
     children |-> None]

\* a mutant: the names are compared as they are, without to_lowercase
compare_entries_cased(a, b) ==
    IF a.is_dir /\ ~b.is_dir THEN "Less"
    ELSE IF ~a.is_dir /\ b.is_dir THEN "Greater"
    ELSE str_cmp(a.name, b.name)

\* the comparator of entries.sort_by
compare_entries(a, b) ==
    IF a.is_dir /\ ~b.is_dir THEN "Less"
    ELSE IF ~a.is_dir /\ b.is_dir THEN "Greater"
    ELSE str_cmp(to_lowercase(a.name), to_lowercase(b.name))

\* x put into the sorted sequence, behind every element it is not less than
insert_sorted(sorted, x) ==
    LET later == {i \in 1 .. Len(sorted) : compare_entries(x, sorted[i]) = "Less"}
        k == IF later = {} THEN Len(sorted) + 1
             ELSE CHOOSE i \in later : \A j \in later : i <= j
    IN  SubSeq(sorted, 1, k - 1) \o <<x>> \o SubSeq(sorted, k, Len(sorted))

RECURSIVE sort_by(_)
\* Vec::sort_by: a stable sort
sort_by(es) ==
    IF es = <<>> THEN <<>>
    ELSE insert_sorted(sort_by(SubSeq(es, 1, Len(es) - 1)), es[Len(es)])

RECURSIVE ReadDirOrders(_)
\* the orders in which fs::read_dir may yield the names S: any
ReadDirOrders(S) ==
    IF S = {} THEN {<<>>}
    ELSE UNION {{<<n>> \o o : o \in ReadDirOrders(S \ {n})} : n \in S}

\* the names fs::read_dir(path) yields, in some order
ReadDir(path) ==
    IF is_dir(path)
    THEN ReadDirOrders({d[Len(d)] : d \in ChildrenOf(components(path))})
    ELSE {<<>>}

\* a mutant: the directory test comes before the existence test
read_directory_result_dirfirst(path, order) ==
    IF ~is_dir(path) THEN Err("Path is not a directory")
    ELSE IF ~exists(path) THEN Err("Path does not exist")
    ELSE LET shown == SelectSeq(order, LAMBDA n : ~starts_with_dot(n)) IN
         Ok(sort_by([i \in 1 .. Len(shown) |-> FileEntry(path, shown[i])]))

\* what read_directory(path) returns when read_dir yields the names in order
read_directory_result(path, order) ==
    IF ~exists(path) THEN Err("Path does not exist")
    ELSE IF ~is_dir(path) THEN Err("Path is not a directory")
    ELSE LET shown == SelectSeq(order, LAMBDA n : ~starts_with_dot(n)) IN
         Ok(sort_by([i \in 1 .. Len(shown) |-> FileEntry(path, shown[i])]))

read_directory(path) ==
    /\ \E order \in ReadDir(path) :
          last' = [op |-> "read_directory", path |-> path,
                   res |-> read_directory_result(path, order)]
    /\ UNCHANGED <<projvars, fs, written>>

-----------------------------------------------------------------------------
(* read_file_contents and write_file_contents *)

\* what read_file_contents(path) returns
read_file_contents_result(path) ==
    IF ~exists(path) THEN Err("File does not exist")
    ELSE IF ~is_file(path) THEN Err("Path is not a file")
    ELSE IF ~valid_utf8(fs[components(path)].data)
    THEN Err("stream did not contain valid UTF-8")
    ELSE Ok(fs[components(path)].data)

read_file_contents(path) ==
    /\ last' = [op |-> "read_file_contents", path |-> path,
                res |-> read_file_contents_result(path)]
    /\ UNCHANGED <<projvars, fs, written>>

\* a mutant: the parent directories are not created
write_file_contents_effect_noparents(path, contents) ==
    fs_write(fs, path, contents)

\* the filesystem after write_file_contents(path, contents), and its result
write_file_contents_effect(path, contents) ==
    LET par == parent(path)
        made == IF IsSome(par) /\ ~exists(Unwrap(par))
                THEN create_dir_all(fs, Unwrap(par))
                ELSE [ok |-> TRUE, fs |-> fs, err |-> ""]
    IN  IF ~made.ok THEN made ELSE fs_write(made.fs, path, contents)

write_file_contents(path, contents) ==
    LET e == write_file_contents_effect(path, contents) IN
    /\ Cardinality(DOMAIN e.fs) <= MaxNodes + 1
    /\ fs' = e.fs
    /\ last' = [op |-> "write_file_contents", path |-> path,
                res |-> IF e.ok THEN Ok(<<>>) ELSE Err(e.err)]
    /\ written' = IF e.ok
                  THEN [q \in DOMAIN written \cup {path} |->
                           IF q = path THEN contents ELSE written[q]]
                  ELSE written
    /\ UNCHANGED projvars

-----------------------------------------------------------------------------
(* read_file_binary *)

\* the character of the standard base64 alphabet for the 6-bit value v
B64Char(v) ==
    IF v < 26 THEN 65 + v
    ELSE IF v < 52 THEN 97 + (v - 26)
    ELSE IF v < 62 THEN 48 + (v - 52)
    ELSE IF v = 62 THEN 43 ELSE 47

RECURSIVE base64_encode(_)
\* STANDARD.encode(&bytes): base64 with '=' padding
base64_encode(b) ==
    IF Len(b) = 0 THEN <<>>
    ELSE IF Len(b) = 1
    THEN <<B64Char(b[1] \div 4), B64Char((b[1] % 4) * 16), 61, 61>>
    ELSE IF Len(b) = 2
    THEN <<B64Char(b[1] \div 4), B64Char((b[1] % 4) * 16 + b[2] \div 16),
           B64Char((b[2] % 16) * 4), 61>>
    ELSE <<B64Char(b[1] \div 4), B64Char((b[1] % 4) * 16 + b[2] \div 16),
           B64Char((b[2] % 16) * 4 + b[3] \div 64), B64Char(b[3] % 64)>>
         \o base64_encode(SubSeq(b, 4, Len(b)))

\* a mutant: the extension is matched as it is, without to_lowercase
mime_type_cased(path) ==
    LET e == extension(path) IN
    IF e = Some(E_png) THEN "image/png"
    ELSE IF e = Some(E_jpg) \/ e = Some(E_jpeg) THEN "image/jpeg"
    ELSE IF e = Some(E_gif) THEN "image/gif"
    ELSE IF e = Some(E_webp) THEN "image/webp"
    ELSE IF e = Some(E_bmp) THEN "image/bmp"
    ELSE IF e = Some(E_ico) THEN "image/x-icon"
    ELSE IF e = Some(E_svg) THEN "image/svg+xml"
    ELSE "application/octet-stream"

\* the MIME type determined from the extension
mime_type(path) ==
    LET x == extension(path)
        e == IF IsSome(x) THEN Some(to_lowercase(Unwrap(x))) ELSE None
    IN  IF e = Some(E_png) THEN "image/png"
        ELSE IF e = Some(E_jpg) \/ e = Some(E_jpeg) THEN "image/jpeg"
        ELSE IF e = Some(E_gif) THEN "image/gif"
        ELSE IF e = Some(E_webp) THEN "image/webp"
        ELSE IF e = Some(E_bmp) THEN "image/bmp"
        ELSE IF e = Some(E_ico) THEN "image/x-icon"
        ELSE IF e = Some(E_svg) THEN "image/svg+xml"
        ELSE "application/octet-stream"

\* what read_file_binary(path) returns
read_file_binary_result(path) ==
    IF ~exists(path) THEN Err("File does not exist")
    ELSE IF ~is_file(path) THEN Err("Path is not a file")
    ELSE Ok([data |-> base64_encode(fs[components(path)].data),
             mime_type |-> mime_type(path)])

read_file_binary(path) ==
    /\ last' = [op |-> "read_file_binary", path |-> path,
                res |-> read_file_binary_result(path)]
    /\ UNCHANGED <<projvars, fs, written>>

-----------------------------------------------------------------------------
(* The filesystem specifications *)

\* a file or directory appears under an existing directory, made outside the
\* program; at most max nodes exist
CreateNode(path, node, max) ==
    /\ ~exists(path)
    /\ is_dir(Unwrap(parent(path)))
    /\ Cardinality(DOMAIN fs) < max
    /\ fs' = [c \in DOMAIN fs \cup {components(path)} |->
                IF c = components(path) THEN node ELSE fs[c]]
    /\ last' = NoLast
    /\ UNCHANGED <<projvars, written>>

\* no command is running; the project pr is open and persisted
InitProject(pr) ==
    /\ project = pr
    /\ mutex = None
    /\ store = "reliable"
    /\ cache = IF IsSome(pr.path) THEN Some(JsonStr(Unwrap(pr.path))) ELSE None
    /\ disk = cache
    /\ pc = [t \in Tasks |-> "idle"]
    /\ local = [t \in Tasks |-> NoLocal]
    /\ ret = NoRet
    /\ hist = <<NoRet, "none">>
    /\ last = NoLast
    /\ written = <<>>

\* the paths and texts the tree specification passes to the commands
TreeNames == {N_a, N_b}
TreePaths == {Render(cs) : cs \in UNION {[1 .. n -> TreeNames] : n \in 0 .. MaxDepth}}
Texts == {T_x, T_yz}

InitFS ==
    /\ \E pr \in {ProjectState_default, ProjectOf(S_x_Proj)} : InitProject(pr)
    /\ fs = [c \in {<<>>} |-> Dir]

NextFS ==
    \E path \in TreePaths :
        \/ read_directory(path)
        \/ read_file_contents(path)
        \/ read_file_binary(path)
        \/ \E contents \in Texts : write_file_contents(path, contents)

\* the commands on a tree that grows by write_file_contents
SpecFS == InitFS /\ [][NextFS]_vars

\* the names of the entries of the listed directory /p
ListNames == {N_zeta, N_Alpha_txt, N_beta_txt, N_Beta_txt, N_git, N_a_txt, N_B_txt}
\* a file inside the subdirectory /p/zeta
S_p_zeta_beta == join(join(S_p, N_zeta), N_beta_txt)

InitList ==
    /\ InitProject(ProjectState_default)
    /\ fs = [c \in {<<>>, components(S_p)} |-> Dir]

NextList ==
    \/ \E n \in ListNames, node \in {Dir, File(T_x)} :
          CreateNode(join(S_p, n), node, MaxEntries + 2)
    \/ CreateNode(S_p_zeta_beta, File(T_x), MaxEntries + 2)
    \/ \E path \in {S_p, join(S_p, N_zeta)} : read_directory(path)

\* read_directory on a directory whose entries are made outside the program
SpecList == InitList /\ [][NextList]_vars

\* the names and contents of the files read by read_file_binary
MimeNames == {N_icon_PNG, N_data_bin, N_a_jpg, N_a_JpEg, N_a_gif, N_a_webp,
              N_a_bmp, N_a_ico, N_a_svg, N_README, N_dot_png, N_a_png_txt, N_png}
Blobs == {<<>>, <<60>>, <<137, 80>>, <<137, 80, 78, 71, 255>>}

NextMime ==
    \/ \E n \in MimeNames, data \in Blobs :
          CreateNode(join(S_p, n), File(data), MaxFiles + 2)
    \/ \E n \in MimeNames : read_file_binary(join(S_p, n))
    \/ \E n \in MimeNames : read_file_contents(join(S_p, n))

\* read_file_binary on files made outside the program
SpecMime == InitList /\ [][NextMime]_vars

-----------------------------------------------------------------------------
(* Properties of the project-state commands *)

\* the display name open_project_dialog and load_last_project derive from a path
DisplayName(p) == IF IsSome(file_name(p)) THEN Unwrap(file_name(p)) ELSE p

\* both fields present or both absent
Whole(pr) == (pr.path = None) <=> (pr.name = None)

\* C1: in every reachable state of the concurrently running commands the
\* in-memory ProjectState has path and name both present or both absent, and
\* a present name is the final segment of the path, or the full path when the
\* path has no final segment
C1_NoPartialProject ==
    /\ Whole(project)
    /\ IsSome(project.path) =>
          project.name = Some(DisplayName(Unwrap(project.path)))
    /\ IsSome(ret.val) => Whole(Unwrap(ret.val))

\* C1 witness: the root folder is the open project, named by its full path,
\* while another command is running
C1_Witness ==
    /\ project = [path |-> Some(S_root), name |-> Some(S_root)]
    /\ \E t \in Tasks : pc[t] = "cp_save"

\* the pattern open (P picked) then get_current_project; the expected name is
\* the final segment of P, with or without the fallback to P itself
C2_OpenThenGet(fallback) ==
    (/\ hist[1].cmd = "open_project_dialog"
     /\ IsSome(hist[1].val)
     /\ ret.cmd = "get_current_project")
    => LET P == Unwrap(Unwrap(hist[1].val).path) IN
       ret.val = Some([path |-> Some(P),
                       name |-> IF fallback THEN Some(DisplayName(P))
                                ELSE file_name(P)])

\* the pattern close then get_current_project then load_last_project
C2_AfterClose ==
    /\ (hist[1].cmd = "close_project" /\ ret.cmd = "get_current_project")
          => ret.val = Some(ProjectState_default)
    /\ (/\ hist[2] = "close_project"
        /\ hist[1].cmd = "get_current_project"
        /\ ret.cmd = "load_last_project")
          => ret.val = None
    /\ (hist[1].cmd = "close_project" /\ ret.cmd = "load_last_project")
          => ret.val = None

\* C2 as stated: when the commands run one after another, get_current_project
\* after an open of P returns {path: P, name: the final segment of P}, and
\* after close_project get_current_project returns the empty state and a
\* following load_last_project returns nothing
C2_Original ==
    /\ C2_OpenThenGet(FALSE)
    /\ C2_AfterClose

\* C2 amended: when the commands run one after another, get_current_project
\* after an open of P returns {path: P, name: the final segment of P, or P
\* itself when P has no final segment}, and after close_project
\* get_current_project returns the empty state and a following
\* load_last_project returns nothing
C2_Amended ==
    /\ C2_OpenThenGet(TRUE)
    /\ C2_AfterClose

\* C2 witness: open of /x/Proj, close, get_current_project and load_last_project
\* have run in a row, and settings.json still names a folder (the save failed)
C2_Witness ==
    /\ hist[2] = "close_project"
    /\ hist[1] = [cmd |-> "get_current_project",
                  val |-> Some(ProjectState_default), persist |-> "none"]
    /\ ret = [cmd |-> "load_last_project", val |-> None, persist |-> "none"]
    /\ store = "flaky"
    /\ disk = Some(JsonStr(S_x_Proj))
    /\ exists(S_x_Proj)
    /\ AllIdle

\* the labels of load_last_project
LlpPcs == {"llp_get", "llp_exists", "llp_lock", "llp_write"}

\* task t takes a step of its command
Moves(t) == pc'[t] # pc[t]

\* load_last_project returns nothing in this step and leaves the state alone
LlpNothing(t) ==
    /\ pc'[t] = "idle"
    /\ ret' = [cmd |-> "load_last_project", val |-> None, persist |-> "none"]
    /\ project' = project

\* C3: load_last_project returns nothing and leaves the in-memory ProjectState
\* as it is when the persisted path is absent or names a path that does not
\* exist, no step of a call that returns nothing changes the ProjectState,
\* and no step of load_last_project writes to the settings store
C3_LoadLastFrame ==
    [][\A t \in Tasks :
          (pc[t] \in LlpPcs /\ Moves(t)) =>
             /\ cache' = cache /\ disk' = disk
             /\ pc[t] \in {"llp_get", "llp_exists"} => project' = project
             /\ (pc[t] = "llp_get" /\ (~storeOk \/ cache = None))
                   => LlpNothing(t)
             /\ (pc[t] = "llp_exists" /\ ~exists(Unwrap(local[t].path)))
                   => LlpNothing(t)]_vars

\* C3 witness: load_last_project has returned nothing for a persisted path whose
\* folder was deleted, and the project that was open is still open
C3_Witness ==
    /\ ret.cmd = "load_last_project" /\ ret.val = None
    /\ AllIdle
    /\ cache = Some(JsonStr(S_x_Proj)) /\ ~exists(S_x_Proj)
    /\ project = ProjectOf(S_root)

\* C4: whatever the settings store does (unavailable, save failed, saved),
\* open_project_dialog with a picked folder P goes on to install ProjectOf(P)
\* and returns it, and close_project goes on to reset the state to empty
C4_BestEffortPersistence ==
    [][\A t \in Tasks :
          /\ (pc[t] \in {"opd_store", "opd_save"} /\ Moves(t)) =>
                /\ pc'[t] \in {"opd_save", "opd_lock"}
                /\ local'[t].path = local[t].path
                /\ project' = project
          /\ (pc[t] = "opd_write" /\ Moves(t)) =>
                /\ project' = ProjectOf(Unwrap(local[t].path))
                /\ ret' = [cmd |-> "open_project_dialog", val |-> Some(project'),
                           persist |-> local[t].persist]
          /\ (pc[t] \in {"cp_store", "cp_save"} /\ Moves(t)) =>
                /\ pc'[t] \in {"cp_save", "cp_lock"}
                /\ project' = project
          /\ (pc[t] = "cp_write" /\ Moves(t)) =>
                /\ project' = ProjectState_default
                /\ ret' = [cmd |-> "close_project", val |-> None,
                           persist |-> local[t].persist]]_vars

\* C4 witness: an open whose save failed has returned the project it installed
C4_Witness ==
    /\ ret = [cmd |-> "open_project_dialog", val |-> Some(ProjectOf(S_x_Proj)),
              persist |-> "save_failed"]
    /\ project = ProjectOf(S_x_Proj)
    /\ disk = None

\* the labels at which a task is inside the guarded read or write
AccessPcs == {"gcp_read", "opd_write", "llp_write", "cp_write"}
\* the labels at which a task is inside a dialog, store or filesystem call
IoPcs == {"opd_dialog", "opd_store", "opd_save", "llp_get", "llp_exists",
          "cp_store", "cp_save"}
\* the labels at which a task waits for the lock
LockPcs == {"gcp_lock", "opd_lock", "llp_lock", "cp_lock"}

\* the lock is held exactly during a read or write of the ProjectState
C5_HeldOnlyForAccess ==
    /\ \A t \in Tasks : (mutex = Some(t)) <=> (pc[t] \in AccessPcs)
    /\ \A t \in Tasks : pc[t] \in IoPcs => mutex # Some(t)
    /\ Cardinality({t \in Tasks : pc[t] \in AccessPcs}) <= 1
    /\ \A t, u \in Tasks :
          (pc[t] \in LockPcs /\ mutex = Some(u)) => pc[u] \notin IoPcs

\* C5: the lock is held only by a task inside its one copy-out or overwrite of
\* the ProjectState, never by a task inside a dialog, store or filesystem
\* step, by at most one task at a time, and the holder's next step releases it
C5_LockDiscipline ==
    /\ []C5_HeldOnlyForAccess
    /\ [][\A t \in Tasks :
             (mutex = Some(t) /\ Moves(t)) => (mutex' = None /\ pc'[t] = "idle")]_vars

\* C5 witness: one task waits for the lock another holds for its write, and
\* it is not the dialog or a disk operation that keeps it waiting
C5_Witness ==
    \E t, u \in Tasks :
        /\ pc[t] = "gcp_lock"
        /\ mutex = Some(u)
        /\ pc[u] = "opd_write"

\* C10: with a settings store that never fails, whenever no command is in
\* progress and the ProjectState holds a path P, the persisted last-project
\* path is present and equals P
C10_PersistedMatchesProject ==
    (store = "reliable" /\ AllIdle /\ IsSome(project.path)) =>
        /\ cache = Some(JsonStr(Unwrap(project.path)))
        /\ disk = cache

-----------------------------------------------------------------------------
(* Properties of the filesystem commands *)

\* the names of the entries es, in order
NamesOf(es) == [i \in 1 .. Len(es) |-> es[i].name]

\* a is not behind b in case-insensitive lexicographic order
LeqIgnoringCase(a, b) == str_cmp(to_lowercase(a), to_lowercase(b)) # "Greater"

\* the directory with components cs holds exactly the given directories and files
Holds(cs, dirs, files) ==
    /\ {d[Len(d)] : d \in ChildrenOf(cs)} = dirs \cup files
    /\ \A n \in dirs : fs[Append(cs, n)].kind = "dir"
    /\ \A n \in files : fs[Append(cs, n)].kind = "file"

C7_Errors ==
    /\ last.op = "read_directory" =>
          /\ ~exists(last.path) => last.res = Err("Path does not exist")
          /\ is_file(last.path) => last.res = Err("Path is not a directory")
    /\ last.op \in {"read_file_contents", "read_file_binary"} =>
          /\ ~exists(last.path) => last.res = Err("File does not exist")
          /\ is_dir(last.path) => last.res = Err("Path is not a file")

\* C7: read_directory fails with "Path does not exist" (NotFound) on a missing
\* path and with "Path is not a directory" (NotADirectory) on a file;
\* read_file_contents and read_file_binary fail with "File does not exist"
\* (NotFound) on a missing path and with "Path is not a file" (NotAFile) on a
\* directory; the failed call returns no entries or data and changes neither
\* the ProjectState nor the persisted path nor the filesystem
C7_ReadFailures ==
    /\ []C7_Errors
    /\ [][(last' # last /\ ~last'.res.ok /\ last'.op # "write_file_contents")
             => UNCHANGED <<project, cache, disk, fs>>]_vars

\* C7 witness: read_directory has failed on a regular file while a project is
\* open and persisted
C7_Witness ==
    /\ last = [op |-> "read_directory", path |-> Render(<<N_a, N_b>>),
               res |-> Err("Path is not a directory")]
    /\ is_file(Render(<<N_a, N_b>>))
    /\ project = ProjectOf(S_x_Proj)
    /\ cache = Some(JsonStr(S_x_Proj))

\* the last successful write to the path, if any
Written(path) == IF path \in DOMAIN written THEN Some(written[path]) ELSE None

\* no directory at the path and no regular file above it
Writable(path) ==
    /\ ~is_dir(path)
    /\ \A c \in Prefixes(components(path)) \ {components(path)} :
          c \in DOMAIN fs => fs[c].kind = "dir"

\* C8 as stated: for every path and every text, write_file_contents(path,
\* contents) followed by read_file_contents(path) returns exactly contents
C8_Original ==
    [][\A path \in TreePaths, contents \in Texts :
          write_file_contents(path, contents)
             => read_file_contents_result(path)' = Ok(contents)]_vars

\* C8 amended: write_file_contents(path, contents) returns Ok exactly when
\* path is not an existing directory and no ancestor of path is a regular
\* file, so also when the parent directory is missing, and then the whole
\* parent chain exists afterwards and read_file_contents(path) returns
\* exactly contents until the next write to that path; a failed write
\* changes nothing
C8_Amended ==
    /\ []((last.op = "read_file_contents" /\ IsSome(Written(last.path)))
             => last.res = Ok(Unwrap(Written(last.path))))
    /\ [][\A path \in {last'.path} \cap TreePaths, contents \in Texts :
             write_file_contents(path, contents) =>
                /\ last'.res.ok <=> Writable(path)
                /\ last'.res.ok =>
                      /\ read_file_contents_result(path)' = Ok(contents)
                      /\ \A c \in Prefixes(components(path)) \ {components(path)} :
                            c \in DOMAIN fs' /\ fs'[c].kind = "dir"
                /\ ~last'.res.ok => fs' = fs]_vars

\* C8 witness: /a/b/a, written when neither /a nor /a/b existed, has been read
\* back after a write to another path
C8_Witness ==
    /\ last = [op |-> "read_file_contents", path |-> Render(<<N_a, N_b, N_a>>),
               res |-> Ok(T_yz)]
    /\ DOMAIN fs = Prefixes(<<N_a, N_b, N_a>>)
    /\ DOMAIN written = {Render(<<N_a, N_b, N_a>>)}

\* the MIME type the table gives for each file name of MimeNames
ExpectedMime(n) ==
    IF n = N_icon_PNG THEN "image/png"
    ELSE IF n \in {N_a_jpg, N_a_JpEg} THEN "image/jpeg"
    ELSE IF n = N_a_gif THEN "image/gif"
    ELSE IF n = N_a_webp THEN "image/webp"
    ELSE IF n = N_a_bmp THEN "image/bmp"
    ELSE IF n = N_a_ico THEN "image/x-icon"
    ELSE IF n = N_a_svg THEN "image/svg+xml"
    ELSE "application/octet-stream"

\* C9: read_file_binary of a regular file returns the MIME type the fixed
\* table gives for the lowercased extension of its name, whatever the file
\* holds: icon.PNG is image/png, a.JpEg is image/jpeg, and data.bin, README,
\* .png, png and a.png.txt are application/octet-stream
C9_MimeFromExtension ==
    (last.op = "read_file_binary" /\ is_file(last.path)) =>
        /\ last.res.ok
        /\ last.res.val.mime_type = ExpectedMime(Unwrap(file_name(last.path)))

\* C9 witness: icon.PNG, which does not hold a PNG image, has been read as
\* image/png
C9_Witness ==
    /\ last.op = "read_file_binary" /\ last.path = join(S_p, N_icon_PNG)
    /\ is_file(last.path)
    /\ fs[components(last.path)] = File(<<60>>)
    /\ last.res = Ok([data |-> <<80, 65, 61, 61>>, mime_type |-> "image/png"])

=============================================================================
